---- MODULE Spec2Model ----
(***************************************************************************)
(* Model of ascii_workflow.py: the Node / Connection / Workflow classes,   *)
(* the layout pipeline (topological sort, levels, coordinates, routing)    *)
(* and the rasterizer.                                                     *)
(*                                                                         *)
(* Representation.  A Python str is a sequence of one-character strings;   *)
(* None and the empty string (both falsy in the code's `if x:` tests) are  *)
(* the empty sequence.  A Python dict is a sequence of [key, val] records  *)
(* in insertion order.  Box-drawing glyphs, which are not ASCII, are       *)
(* written by their code point ("u250C" is U+250C); each is one canvas     *)
(* cell.  Canvas rows and columns are 0-based as in the code; the          *)
(* sequences that hold them are 1-based, so cell (y, x) is canvas[y+1][x+1]*)
(***************************************************************************)
EXTENDS Integers, Sequences, FiniteSets, TLC

VARIABLES title, nodes, connections, canvas, canvas_width, canvas_height,
          output

vars == <<title, nodes, connections, canvas, canvas_width, canvas_height,
          output>>

---------------------------------------------------------------------------
(* Generic helpers for Python built-ins                                    *)

Max2(a, b) == IF a >= b THEN a ELSE b

Min2(a, b) == IF a <= b THEN a ELSE b

\* max(...) over a non-empty set of integers
MaxOf(S) == CHOOSE m \in S : \A k \in S : k <= m

\* str * n
Rep(ch, n) == [i \in 1..n |-> ch]

\* list(reversed(s))
Reversed(s) == [i \in 1..Len(s) |-> s[Len(s) + 1 - i]]

\* the elements of a list, as a set
Elems(s) == {s[i] : i \in 1..Len(s)}

\* dict: key in d
DictHas(d, k) == \E i \in 1..Len(d) : d[i].key = k

\* dict: d[k] (k is a key of d)
DictAt(d, k) == d[CHOOSE i \in 1..Len(d) : d[i].key = k].val

\* dict: d.get(k, default)
DictGet(d, k, default) == IF DictHas(d, k) THEN DictAt(d, k) ELSE default

\* dict: d[k] = v; an existing key keeps its position, a new key goes last
DictSet(d, k, v) ==
    IF DictHas(d, k)
    THEN [i \in 1..Len(d) |-> IF d[i].key = k THEN [key |-> k, val |-> v] ELSE d[i]]
    ELSE Append(d, [key |-> k, val |-> v])

\* dict: list(d.keys())
DictKeys(d) == [i \in 1..Len(d) |-> d[i].key]

---------------------------------------------------------------------------
(* Style tables                                                            *)

BoxStyle(tl, tr, bl, br, h, v, p) ==
    [top_left |-> tl, top_right |-> tr, bottom_left |-> bl, bottom_right |-> br,
     horizontal |-> h, vertical |-> v, padding |-> p]

BOX_STYLES ==
    [t \in {"start", "process", "tool", "decision", "result", "special"} |->
       CASE t = "start"    -> BoxStyle("u250C", "u2510", "u2514", "u2518", "u2500", "u2502", 1)
         [] t = "process"  -> BoxStyle("u250C", "u2510", "u2514", "u2518", "u2500", "u2502", 1)
         [] t = "tool"     -> BoxStyle("u2554", "u2557", "u255A", "u255D", "u2550", "u2551", 1)
         [] t = "decision" -> BoxStyle("u256D", "u256E", "u2570", "u256F", "u2500", "u2502", 1)
         [] t = "result"   -> BoxStyle("u250F", "u2513", "u2517", "u251B", "u2501", "u2503", 1)
         [] t = "special"  -> BoxStyle("u2552", "u2555", "u2558", "u255B", "u2550", "u2502", 1)]

\* only the two glyphs the rasterizer reads (the corner and cross glyphs of
\* the table are never used by the code)
CONNECTIONS ==
    [t \in {"normal", "thick", "double", "dashed"} |->
       CASE t = "normal" -> [vertical |-> "u2502", horizontal |-> "u2500"]
         [] t = "thick"  -> [vertical |-> "u2503", horizontal |-> "u2501"]
         [] t = "double" -> [vertical |-> "u2551", horizontal |-> "u2550"]
         [] t = "dashed" -> [vertical |-> "u250A", horizontal |-> "u2504"]]

ARROWS ==
    [t \in {"normal", "bold", "double", "success", "failure", "conditional"} |->
       CASE t = "normal"      -> "u2192"
         [] t = "bold"        -> "u27F6"
         [] t = "double"      -> "u21D2"
         [] t = "success"     -> "u2713u2192"
         [] t = "failure"     -> "u2717u2192"
         [] t = "conditional" -> "?u2192"]

\* table.get(key, table[fallback])
TableGet(table, k, fallback) ==
    IF k \in DOMAIN table THEN table[k] ELSE table[fallback]

---------------------------------------------------------------------------
(* class Node                                                              *)

\* Node.__init__; style is <<>> (None) or <<s>> for a custom style dict s
Node(node_id, label, node_type, icon, description, style) ==
    [id |-> node_id, label |-> label, type |-> node_type, icon |-> icon,
     description |-> description,
     style |-> IF style # <<>> THEN style[1]
               ELSE TableGet(BOX_STYLES, node_type, "process"),
     x |-> 0, y |-> 0, width |-> 0, height |-> 0]

\* str.split(): the maximal runs of non-space characters, in order
Split(s) ==
    LET starts == {i \in 1..Len(s) : s[i] # " " /\ (i = 1 \/ s[i - 1] = " ")}
        start(k) == CHOOSE i \in starts : Cardinality({j \in starts : j < i}) = k - 1
        end(i) == CHOOSE j \in i..Len(s) :
                      /\ \A m \in i..j : s[m] # " "
                      /\ (j = Len(s) \/ s[j + 1] = " ")
    IN [k \in 1..Cardinality(starts) |-> SubSeq(s, start(k), end(start(k)))]

\* " ".join(words)
RECURSIVE JoinFrom(_, _)
JoinFrom(words, i) ==
    IF i > Len(words) THEN <<>>
    ELSE IF i = Len(words) THEN words[i]
    ELSE words[i] \o <<" ">> \o JoinFrom(words, i + 1)

Join(words) == JoinFrom(words, 1)

\* (mutant) the fit test without the space that joins the word to the line
WordFitsNoSpace(current_length, word, max_line_length) ==
    current_length + Len(word) <= max_line_length

\* the guard of the wrapping loop: does the word still fit on the line?
WordFits(current_length, word, max_line_length) ==
    current_length + Len(word) + (IF current_length > 0 THEN 1 ELSE 0)
        <= max_line_length

\* the `for word in words` loop of get_display_text
RECURSIVE WrapLoop(_, _, _, _, _, _)
WrapLoop(words, i, wrapped_desc, current_line, current_length, max_line_length) ==
    IF i > Len(words)
    THEN IF current_line # <<>>
         THEN Append(wrapped_desc, Join(current_line))
         ELSE wrapped_desc
    ELSE LET word == words[i] IN
         IF WordFits(current_length, word, max_line_length)
         THEN IF current_length > 0
              THEN WrapLoop(words, i + 1, wrapped_desc, Append(current_line, word),
                            current_length + Len(word) + 1, max_line_length)
              ELSE WrapLoop(words, i + 1, wrapped_desc, Append(current_line, word),
                            current_length + Len(word), max_line_length)
         ELSE WrapLoop(words, i + 1, Append(wrapped_desc, Join(current_line)),
                       <<word>>, Len(word), max_line_length)

\* the first display line: the label, behind the icon when there is one
DisplayLine0(node) ==
    IF node.icon # <<>> THEN node.icon \o <<" ">> \o node.label ELSE node.label

\* the wrap width of the description
WrapWidth == 30

MaxLineLength(node) == Max2(Len(DisplayLine0(node)), WrapWidth)

\* Node.get_display_text
get_display_text(node) ==
    IF node.description # <<>>
    THEN <<DisplayLine0(node)>>
         \o WrapLoop(Split(node.description), 1, <<>>, <<>>, 0, MaxLineLength(node))
    ELSE <<DisplayLine0(node)>>

NodeWidth(text_lines, padding) ==
    MaxOf({Len(text_lines[i]) : i \in 1..Len(text_lines)}) + (padding * 2)

\* (mutant) the padding counted once
NodeHeightOnePad(text_lines, padding) == Len(text_lines) + padding

NodeHeight(text_lines, padding) == Len(text_lines) + (padding * 2)

\* Node.calculate_dimensions
calculate_dimensions(node) ==
    LET text_lines == get_display_text(node)
        padding    == node.style.padding
    IN [node EXCEPT !.width  = NodeWidth(text_lines, padding),
                    !.height = NodeHeight(text_lines, padding)]

---------------------------------------------------------------------------
(* class Connection                                                        *)

\* Connection.__init__
Connection(source, target, conn_type, label) ==
    [source |-> source, target |-> target, type |-> conn_type, label |-> label,
     style |-> TableGet(CONNECTIONS, conn_type, "normal"),
     arrow |-> TableGet(ARROWS, conn_type, "normal"),
     path |-> <<>>]

---------------------------------------------------------------------------
(* class Workflow: the object and its two mutators                         *)

\* Workflow.__init__
Workflow(t) ==
    [title |-> t, nodes |-> <<>>, connections |-> <<>>, canvas |-> <<>>,
     canvas_width |-> 0, canvas_height |-> 0]

\* Workflow.add_node: self.nodes[node.id] = node
add_node(self, node) ==
    [self EXCEPT !.nodes = DictSet(self.nodes, node.id, node)]

\* Workflow.add_connection: self.connections.append(connection)
add_connection(self, connection) ==
    [self EXCEPT !.connections = Append(self.connections, connection)]

\* both endpoints of the connection are keys of the node dict
Resolvable(self, conn) ==
    DictHas(self.nodes, conn.source) /\ DictHas(self.nodes, conn.target)

---------------------------------------------------------------------------
(* Workflow._topological_sort                                              *)

\* the loop filling one adjacency list: the targets (or sources) of the
\* resolvable connections that leave (or enter) node_id, in connection order
RECURSIVE AdjFrom(_, _, _, _)
AdjFrom(self, node_id, i, forward) ==
    IF i > Len(self.connections) THEN <<>>
    ELSE LET conn == self.connections[i]
             here == IF forward THEN conn.source ELSE conn.target
             there == IF forward THEN conn.target ELSE conn.source
         IN IF Resolvable(self, conn) /\ here = node_id
            THEN <<there>> \o AdjFrom(self, node_id, i + 1, forward)
            ELSE AdjFrom(self, node_id, i + 1, forward)

\* adjacency[node_id]
Adjacency(self, node_id) == AdjFrom(self, node_id, 1, TRUE)

\* the recursion of visit(); temp_visited is what breaks a cycle
CycleGuard(node_id, st) == node_id \in st.temp_visited

\* (mutant) a finished node is visited again
DoneGuardMissing(node_id, st) == FALSE

\* a finished node is not visited again
DoneGuard(node_id, st) == node_id \in st.visited

RECURSIVE visit(_, _, _), VisitNeighbors(_, _, _, _)
visit(self, node_id, st) ==
    IF CycleGuard(node_id, st) THEN st
    ELSE IF DoneGuard(node_id, st) THEN st
    ELSE LET s1 == [st EXCEPT !.temp_visited = @ \cup {node_id}]
             s2 == VisitNeighbors(self, Adjacency(self, node_id), 1, s1)
         IN [visited      |-> s2.visited \cup {node_id},
             temp_visited |-> s2.temp_visited \ {node_id},
             result       |-> Append(s2.result, node_id)]

\* for neighbor in adjacency[node_id]: visit(neighbor)
VisitNeighbors(self, neighbors, i, st) ==
    IF i > Len(neighbors) THEN st
    ELSE VisitNeighbors(self, neighbors, i + 1, visit(self, neighbors[i], st))

\* for node_id in self.nodes: if node_id not in visited: visit(node_id)
RECURSIVE VisitAll(_, _, _)
VisitAll(self, i, st) ==
    IF i > Len(self.nodes) THEN st
    ELSE LET node_id == self.nodes[i].key IN
         IF node_id \notin st.visited
         THEN VisitAll(self, i + 1, visit(self, node_id, st))
         ELSE VisitAll(self, i + 1, st)

\* (mutant) the post-order returned as it is, without the reversal
ResultOrderNotReversed(result) == result

\* the order the DFS result is returned in
ResultOrder(result) == Reversed(result)

topological_sort(self) ==
    ResultOrder(VisitAll(self, 1,
        [visited |-> {}, temp_visited |-> {}, result |-> <<>>]).result)

---------------------------------------------------------------------------
(* Workflow._assign_levels                                                 *)

\* (mutant) the sources of every connection into node_id, step or not
RevAdjacencyUnchecked(self, node_id) ==
    LET into == SelectSeq(self.connections, LAMBDA conn : conn.target = node_id)
    IN [i \in 1..Len(into) |-> into[i].source]

\* rev_adjacency[node_id]
RevAdjacency(self, node_id) == AdjFrom(self, node_id, 1, FALSE)

\* the level of a node whose dependencies have levels max_dep_level at most
LevelAfter(max_dep_level) == max_dep_level + 1

\* the loop assigning node_to_level, a dict filled in the order of ordered_nodes
RECURSIVE LevelLoop(_, _, _, _)
LevelLoop(self, ordered_nodes, i, node_to_level) ==
    IF i > Len(ordered_nodes) THEN node_to_level
    ELSE LET node_id == ordered_nodes[i]
             deps    == RevAdjacency(self, node_id)
             level   == IF deps = <<>> THEN 0
                        ELSE LevelAfter(MaxOf({DictGet(node_to_level, deps[k], 0) :
                                               k \in 1..Len(deps)}))
         IN LevelLoop(self, ordered_nodes, i + 1, DictSet(node_to_level, node_id, level))

NodeToLevel(self, ordered_nodes) == LevelLoop(self, ordered_nodes, 1, <<>>)

\* the grouping loop: node_levels[level].append(node_id), in dict order
RECURSIVE GroupLoop(_, _, _)
GroupLoop(node_to_level, i, node_levels) ==
    IF i > Len(node_to_level) THEN node_levels
    ELSE LET level == node_to_level[i].val
             node_id == node_to_level[i].key
         IN GroupLoop(node_to_level, i + 1,
                DictSet(node_levels, level,
                        Append(DictGet(node_levels, level, <<>>), node_id)))

assign_levels(self, ordered_nodes) ==
    GroupLoop(NodeToLevel(self, ordered_nodes), 1, <<>>)

\* sorted(node_levels.items()): the items by ascending level
RECURSIVE SortedItems(_)
SortedItems(d) ==
    IF d = <<>> THEN <<>>
    ELSE LET m == CHOOSE i \in 1..Len(d) : \A j \in 1..Len(d) : d[i].key <= d[j].key
             rest == [j \in 1..(Len(d) - 1) |-> IF j < m THEN d[j] ELSE d[j + 1]]
         IN <<d[m]>> \o SortedItems(rest)

---------------------------------------------------------------------------
(* Workflow._route_connections                                             *)

\* the column of a box's centre
CenterX(node) == node.x + node.width \div 2

\* the path of a resolvable connection: bottom centre of the source box to
\* top centre of the target box
RoutePath(source, target) ==
    <<  <<CenterX(source), source.y + source.height>>,
        <<CenterX(target), target.y>>  >>

route_connections(self) ==
    [self EXCEPT !.connections =
        [i \in 1..Len(self.connections) |->
            LET conn == self.connections[i] IN
            IF ~Resolvable(self, conn) THEN conn
            ELSE [conn EXCEPT !.path = RoutePath(DictAt(self.nodes, conn.source),
                                                 DictAt(self.nodes, conn.target))]]]

---------------------------------------------------------------------------
(* Workflow.calculate_layout                                               *)

\* margin above the first level
TopMargin == 2

\* rows between two levels
LevelSpacing == 2

\* columns added to the widest box to get the per-box share of a level
BoxSpacing == 10

\* least width a level is spread over
MinLevelWidth == 80

\* columns right of the rightmost box
RightMargin == 5

\* columns the title needs around it
TitleMargin == 4

\* rows below the last level
BottomMargin == 2

\* the horizontal step between the centres of the boxes of one level
LevelStep(max_width, n) ==
    Max2(MinLevelWidth, max_width * n) \div (n + 1)

\* node.x of the i-th box (0-based) of a level
\* (mutant) the box put left of its slot point instead of centered on it
NodeXLeftOfSlot(i, spacing, width) == (i + 1) * spacing - width

NodeX(i, spacing, width) == (i + 1) * spacing - (width \div 2)

\* the inner loop: place the boxes of one level
RECURSIVE PlaceLevel(_, _, _, _, _)
PlaceLevel(nds, level_nodes, i, spacing, current_y) ==
    IF i > Len(level_nodes) THEN nds
    ELSE LET node == DictAt(nds, level_nodes[i])
             placed == [node EXCEPT !.x = NodeX(i - 1, spacing, node.width),
                                    !.y = current_y]
         IN PlaceLevel(DictSet(nds, level_nodes[i], placed), level_nodes, i + 1,
                       spacing, current_y)

\* the outer loop over sorted(node_levels.items())
RECURSIVE PlaceLevels(_, _, _, _, _)
PlaceLevels(nds, items, k, current_y, max_width) ==
    IF k > Len(items) THEN [nodes |-> nds, current_y |-> current_y]
    ELSE LET level_nodes == items[k].val
             max_height  == MaxOf({DictAt(nds, level_nodes[i]).height :
                                   i \in 1..Len(level_nodes)})
             spacing     == LevelStep(max_width, Len(level_nodes))
         IN PlaceLevels(PlaceLevel(nds, level_nodes, 1, spacing, current_y),
                        items, k + 1, current_y + (max_height + LevelSpacing), max_width)

CanvasWidth(nds, t) ==
    Max2(MaxOf({nds[i].val.x + nds[i].val.width : i \in 1..Len(nds)}) + RightMargin,
         Len(t) + TitleMargin)

calculate_layout(self) ==
    IF self.nodes = <<>> THEN self
    ELSE LET dimmed == [i \in 1..Len(self.nodes) |->
                          [key |-> self.nodes[i].key,
                           val |-> calculate_dimensions(self.nodes[i].val)]]
             s1 == [self EXCEPT !.nodes = dimmed]
             ordered_nodes == topological_sort(s1)
             max_width == MaxOf({dimmed[i].val.width : i \in 1..Len(dimmed)}) + BoxSpacing
             node_levels == assign_levels(s1, ordered_nodes)
             placed == PlaceLevels(dimmed, SortedItems(node_levels), 1, TopMargin, max_width)
         IN route_connections(
              [s1 EXCEPT !.nodes = placed.nodes,
                         !.canvas_width = CanvasWidth(placed.nodes, self.title),
                         !.canvas_height = placed.current_y + BottomMargin])

---------------------------------------------------------------------------
(* The rasterizer.  Each drawing routine is modelled by the list of canvas *)
(* assignments it performs, in program order: [y, x, ch] stands for        *)
(* self.canvas[y][x] = ch.  An assignment is in the list only if it passed *)
(* the guard the code puts in front of it.                                 *)

\* range(a, b)
Range(a, b) == [i \in 1..Max2(b - a, 0) |-> a + i - 1]

Put(y, x, ch) == [y |-> y, x |-> x, ch |-> ch]

\* 0 <= x < self.canvas_width
ColGuard(self, x) == 0 <= x /\ x < self.canvas_width

\* 0 <= y < self.canvas_height
RowGuard(self, y) == 0 <= y /\ y < self.canvas_height

\* the title loop of render
TitleWrites(self) ==
    LET title_pos == (self.canvas_width - Len(self.title)) \div 2
        all == [i \in 1..Len(self.title) |-> Put(0, title_pos + (i - 1), self.title[i])]
    IN SelectSeq(all, LAMBDA w : ColGuard(self, w.x))

\* (mutant) the arrow on the last row of the segment
ArrowRowAtEnd(end_y) == end_y

\* the row of a vertical segment that takes the arrow
ArrowRow(end_y) == end_y - 1

\* one segment of a path, by the branch of _draw_connections that draws it
VerticalWrites(self, conn, i) ==
    LET start_x == conn.path[i][1]
        start_y == conn.path[i][2]
        end_y   == conn.path[i + 1][2]
        ys      == Range(Min2(start_y, end_y), Max2(start_y, end_y) + 1)
        all     == [k \in 1..Len(ys) |->
                      Put(ys[k], start_x,
                          IF ys[k] = ArrowRow(end_y) /\ i = Len(conn.path) - 1
                          THEN "v" ELSE conn.style.vertical)]
    IN SelectSeq(all, LAMBDA w : ColGuard(self, w.x) /\ RowGuard(self, w.y))

HorizontalWrites(self, conn, i) ==
    LET start_x == conn.path[i][1]
        start_y == conn.path[i][2]
        end_x   == conn.path[i + 1][1]
        xs      == Range(Min2(start_x, end_x), Max2(start_x, end_x) + 1)
        all     == [k \in 1..Len(xs) |->
                      Put(start_y, xs[k],
                          IF xs[k] = end_x - 1 /\ i = Len(conn.path) - 1
                          THEN conn.arrow ELSE conn.style.horizontal)]
    IN SelectSeq(all, LAMBDA w : ColGuard(self, w.x) /\ RowGuard(self, w.y))

SegmentWrites(self, conn, i) ==
    IF conn.path[i][1] = conn.path[i + 1][1] THEN VerticalWrites(self, conn, i)
    ELSE IF conn.path[i][2] = conn.path[i + 1][2] THEN HorizontalWrites(self, conn, i)
    ELSE <<>>

RECURSIVE SegmentsFrom(_, _, _)
SegmentsFrom(self, conn, i) ==
    IF i > Len(conn.path) - 1 THEN <<>>
    ELSE SegmentWrites(self, conn, i) \o SegmentsFrom(self, conn, i + 1)

\* (mutant) a label character is written wherever it falls
LabelGuardMissing(self, x) == TRUE

\* the guard in front of a label character
LabelGuard(self, x) == ColGuard(self, x)

\* the label of a connection, one cell right of the path's middle point
LabelWrites(self, conn) ==
    IF conn.label # <<>> /\ Len(conn.path) >= 2
    THEN LET mid     == conn.path[(Len(conn.path) \div 2) + 1]
             label_x == mid[1] + 1
             label_y == mid[2]
             all     == [i \in 1..Len(conn.label) |->
                           Put(label_y, label_x + (i - 1), conn.label[i])]
         IN IF RowGuard(self, label_y)
            THEN SelectSeq(all, LAMBDA w : LabelGuard(self, w.x))
            ELSE <<>>
    ELSE <<>>

\* the body of the loop of _draw_connections for one connection
ConnWrites(self, conn) ==
    IF conn.path = <<>> \/ Len(conn.path) < 2 THEN <<>>
    ELSE SegmentsFrom(self, conn, 1) \o LabelWrites(self, conn)

RECURSIVE ConnsFrom(_, _)
ConnsFrom(self, i) ==
    IF i > Len(self.connections) THEN <<>>
    ELSE ConnWrites(self, self.connections[i]) \o ConnsFrom(self, i + 1)

\* Workflow._draw_connections
draw_connections(self) == ConnsFrom(self, 1)

\* the top (or bottom) border row of a box
BorderWrites(self, node, y, left, right) ==
    LET xs  == Range(node.x, node.x + node.width)
        all == [k \in 1..Len(xs) |->
                  Put(y, xs[k],
                      IF xs[k] = node.x THEN left
                      ELSE IF xs[k] = node.x + node.width - 1 THEN right
                      ELSE node.style.horizontal)]
    IN SelectSeq(all, LAMBDA w : ColGuard(self, w.x) /\ RowGuard(self, y))

\* the two side columns of a box
RECURSIVE SideWrites(_, _, _, _)
SideWrites(self, node, ys, k) ==
    IF k > Len(ys) THEN <<>>
    ELSE (IF RowGuard(self, ys[k])
          THEN (IF ColGuard(self, node.x)
                THEN <<Put(ys[k], node.x, node.style.vertical)>> ELSE <<>>)
               \o (IF ColGuard(self, node.x + node.width - 1)
                   THEN <<Put(ys[k], node.x + node.width - 1, node.style.vertical)>>
                   ELSE <<>>)
          ELSE <<>>)
         \o SideWrites(self, node, ys, k + 1)

\* the guard in front of a text character
TextGuard(start_x, x, end_x) == start_x <= x /\ x < end_x

\* the text rows of a box
RECURSIVE TextWrites(_, _, _, _)
TextWrites(self, node, lines, i) ==
    IF i > Len(lines) THEN <<>>
    ELSE LET padding == node.style.padding
             y       == node.y + padding + (i - 1)
             start_x == node.x + padding
             end_x   == Min2(node.x + node.width - padding, self.canvas_width)
             all     == [j \in 1..Len(lines[i]) |-> Put(y, start_x + (j - 1), lines[i][j])]
         IN (IF RowGuard(self, y)
             THEN SelectSeq(all, LAMBDA w : TextGuard(start_x, w.x, end_x))
             ELSE <<>>)
            \o TextWrites(self, node, lines, i + 1)

\* Workflow._draw_node
draw_node(self, node) ==
    BorderWrites(self, node, node.y, node.style.top_left, node.style.top_right)
    \o BorderWrites(self, node, node.y + node.height - 1,
                    node.style.bottom_left, node.style.bottom_right)
    \o SideWrites(self, node, Range(node.y + 1, node.y + node.height - 1), 1)
    \o TextWrites(self, node, get_display_text(node), 1)

\* for node_id, node in self.nodes.items(): the nodes _draw_node is called on
DrawOrder(self) == DictKeys(self.nodes)

RECURSIVE NodesFrom(_, _, _)
NodesFrom(self, order, i) ==
    IF i > Len(order) THEN <<>>
    ELSE draw_node(self, DictAt(self.nodes, order[i])) \o NodesFrom(self, order, i + 1)

\* every canvas assignment of one render, in program order
RenderWrites(self) ==
    TitleWrites(self) \o draw_connections(self) \o NodesFrom(self, DrawOrder(self), 1)

---------------------------------------------------------------------------
(* Python list indexing: an index in -n..-1 counts from the end, an index  *)
(* outside -n..n-1 raises IndexError                                       *)

IndexOk(i, n) == -n <= i /\ i < n

Index(i, n) == IF i < 0 THEN i + n ELSE i

\* the assignment self.canvas[y][x] = ch raises
Raises(self, w) ==
    ~IndexOk(w.y, self.canvas_height) \/ ~IndexOk(w.x, self.canvas_width)

\* perform the assignments in order, up to the first that raises: each cell
\* ends with the character of the last assignment made to it
Paint(self, cv, ws) ==
    LET bad  == {i \in 1..Len(ws) : Raises(self, ws[i])}
        stop == IF bad = {} THEN Len(ws) + 1
                ELSE CHOOSE i \in bad : \A j \in bad : i <= j
        done == SubSeq(ws, 1, stop - 1)
        Row(y) ==
            LET rw == SelectSeq(done, LAMBDA w : Index(w.y, self.canvas_height) = y)
            IN [c \in 1..self.canvas_width |->
                  LET hits == {i \in 1..Len(rw) :
                                 Index(rw[i].x, self.canvas_width) = c - 1}
                  IN IF hits = {} THEN cv[y + 1][c]
                     ELSE rw[CHOOSE i \in hits : \A j \in hits : j <= i].ch]
    IN [canvas |-> [r \in 1..self.canvas_height |-> Row(r - 1)],
        raised |-> bad # {}]

\* [[' ' for _ in range(width)] for _ in range(height)]
Blank(width, height) == [r \in 1..height |-> [c \in 1..width |-> " "]]

\* the characters of one cell: the two-character arrows are one cell
CellChars(cell) ==
    CASE cell = "u2713u2192" -> <<"u2713", "u2192">>
      [] cell = "u2717u2192" -> <<"u2717", "u2192">>
      [] cell = "?u2192"     -> <<"?", "u2192">>
      [] OTHER               -> <<cell>>

\* ''.join(row[lo..hi])
RECURSIVE JoinRow(_, _, _)
JoinRow(row, lo, hi) ==
    IF lo > hi THEN <<>>
    ELSE IF lo = hi THEN CellChars(row[lo])
    ELSE LET mid == (lo + hi) \div 2
         IN JoinRow(row, lo, mid) \o JoinRow(row, mid + 1, hi)

\* '\n'.join(''.join(row) for row in canvas[lo..hi])
RECURSIVE JoinRows(_, _, _)
JoinRows(cv, lo, hi) ==
    IF lo > hi THEN <<>>
    ELSE IF lo = hi THEN JoinRow(cv[lo], 1, Len(cv[lo]))
    ELSE LET mid == (lo + hi) \div 2
         IN JoinRows(cv, lo, mid) \o <<"\n">> \o JoinRows(cv, mid + 1, hi)

\* the literal returned for a workflow without nodes
EmptyWorkflow ==
    <<"E", "m", "p", "t", "y", " ", "w", "o", "r", "k", "f", "l", "o", "w">>

\* what a call leaves when it ends in an exception instead of returning
IndexError == <<"IndexError">>

\* is the layout computed on this call?  (`if not self.canvas`)
NeedsLayout(self) == self.canvas = <<>>

\* Workflow.render: the object after the call, and the value returned
render(self) ==
    IF self.nodes = <<>> THEN [self |-> self, result |-> EmptyWorkflow]
    ELSE LET s1 == IF NeedsLayout(self) THEN calculate_layout(self) ELSE self
             p  == Paint(s1, Blank(s1.canvas_width, s1.canvas_height),
                         RenderWrites(s1))
             s2 == [s1 EXCEPT !.canvas = p.canvas]
         IN [self |-> s2,
             result |-> IF p.raised THEN IndexError ELSE JoinRows(p.canvas, 1, Len(p.canvas))]

---------------------------------------------------------------------------
(* create_workflow_from_dict                                               *)

\* one entry of data['nodes'], with the defaults of .get() filled in
NodeData(id, label, type, icon, description, style) ==
    [id |-> id, label |-> label, type |-> type, icon |-> icon,
     description |-> description, style |-> style]

\* one entry of data['connections']
ConnData(source, target, type, label) ==
    [source |-> source, target |-> target, type |-> type, label |-> label]

RECURSIVE LoadNodes(_, _, _)
LoadNodes(workflow, nds, i) ==
    IF i > Len(nds) THEN workflow
    ELSE LoadNodes(add_node(workflow,
                            Node(nds[i].id, nds[i].label, nds[i].type, nds[i].icon,
                                 nds[i].description, nds[i].style)),
                   nds, i + 1)

RECURSIVE LoadConns(_, _, _)
LoadConns(workflow, cns, i) ==
    IF i > Len(cns) THEN workflow
    ELSE LoadConns(add_connection(workflow,
                                  Connection(cns[i].source, cns[i].target,
                                             cns[i].type, cns[i].label)),
                   cns, i + 1)

create_workflow_from_dict(data) ==
    LoadConns(LoadNodes(Workflow(data.title), data.nodes, 1), data.connections, 1)

---------------------------------------------------------------------------
(* The state machine: one Workflow object and the calls made on it         *)

\* the Workflow object, read from the variables
Self ==
    [title |-> title, nodes |-> nodes, connections |-> connections,
     canvas |-> canvas, canvas_width |-> canvas_width,
     canvas_height |-> canvas_height]

\* the variables after a call that leaves the object as w
Becomes(w) ==
    /\ title' = w.title
    /\ nodes' = w.nodes
    /\ connections' = w.connections
    /\ canvas' = w.canvas
    /\ canvas_width' = w.canvas_width
    /\ canvas_height' = w.canvas_height

\* the variables hold the object w
Holds(w) ==
    /\ title = w.title
    /\ nodes = w.nodes
    /\ connections = w.connections
    /\ canvas = w.canvas
    /\ canvas_width = w.canvas_width
    /\ canvas_height = w.canvas_height

---------------------------------------------------------------------------
(* Spec: the calls a program can make on one Workflow, in any order        *)

\* bounds of the inputs
MaxNodes == 2

MaxConns == 2

IdPool == <<"a", "b", "c", "d">>

NodeIds == {IdPool[i] : i \in 1..Min2(MaxNodes, Len(IdPool))}

\* an id no node ever has
Dangling == "z"

\* a custom style with padding 0
FlatStyle == BoxStyle("+", "+", "+", "+", "-", "|", 0)

LongLabel == <<"i", "f", " ", "t", "e", "s", "t", "s", " ", "p", "a", "s", "s">>

\* the nodes add_node is called with: a plain one-line box, and a box with
\* an icon, a description and a custom style
NodeInputs ==
    {Node(id, <<"A">>, "process", <<>>, <<>>, <<>>) : id \in NodeIds \ {"b"}}
    \cup {Node(id, <<"G", "o">>, "tool", <<"*">>, <<"a", "b", " ", "c", "d">>,
               <<FlatStyle>>) : id \in NodeIds \cap {"b"}}

\* the connections add_connection is called with
ConnInputs ==
    {Connection("a", "b", "normal", <<>>),
     Connection("a", "b", "double", LongLabel),
     Connection("a", Dangling, "normal", LongLabel),
     Connection(Dangling, "a", "normal", <<>>)}

Init ==
    /\ Holds(Workflow(<<"T">>))
    /\ output = <<>>

AddNode ==
    \E node \in NodeInputs :
        /\ Becomes(add_node(Self, node))
        /\ UNCHANGED output

AddConnection ==
    \E conn \in ConnInputs :
        /\ Len(connections) < MaxConns
        /\ Becomes(add_connection(Self, conn))
        /\ UNCHANGED output

CalculateLayout ==
    /\ Becomes(calculate_layout(Self))
    /\ UNCHANGED output

Render ==
    LET r == render(Self) IN
    /\ Becomes(r.self)
    /\ output' = r.result

Next == AddNode \/ AddConnection \/ CalculateLayout \/ Render

Spec == Init /\ [][Next]_vars

---------------------------------------------------------------------------
(* Specifications that start from a loaded workflow (the command line's    *)
(* path: create_workflow_from_dict, then the layout and the rendering)     *)

NextLoaded == CalculateLayout \/ Render

\* all sequences over S of length at most n
SeqsUpTo(S, n) == UNION {[1..k -> S] : k \in 0..n}

Plain(id, label) == NodeData(id, label, "process", <<>>, <<>>, <<>>)

\* SpecGraph: three one-line boxes and every list of connections among them
MaxGraphConns == 3

GraphNodes == <<Plain("a", <<"A">>), Plain("b", <<"B">>), Plain("c", <<"C">>)>>

GraphPairs ==
    {<<"a", "b">>, <<"b", "c">>, <<"a", "c">>, <<"c", "b">>, <<"b", "a">>,
     <<"a", "a">>, <<"a", Dangling>>}

GraphData ==
    {[title |-> <<"T">>, nodes |-> GraphNodes,
      connections |-> [i \in 1..Len(ps) |-> ConnData(ps[i][1], ps[i][2], "normal", <<>>)]] :
        ps \in SeqsUpTo(GraphPairs, MaxGraphConns)}

InitGraph ==
    /\ \E data \in GraphData : Holds(create_workflow_from_dict(data))
    /\ output = <<>>

SpecGraph == InitGraph /\ [][NextLoaded]_vars

\* SpecText: one box, over labels, icons, descriptions and paddings
MaxWords == 3

WordLens == {1, 15, 31}

\* a description: words of the given lengths, `gap` spaces between them and
\* `pad` spaces at both ends
RECURSIVE Describe(_, _, _)
Describe(lens, i, gap) ==
    IF i > Len(lens) THEN <<>>
    ELSE Rep("w", lens[i])
         \o (IF i < Len(lens) THEN Rep(" ", gap) ELSE <<>>)
         \o Describe(lens, i + 1, gap)

Descriptions ==
    {Describe(lens, 1, 1) : lens \in SeqsUpTo(WordLens, MaxWords)}
    \cup {Rep(" ", 2), <<" ">> \o Describe(<<15, 15>>, 1, 2) \o <<" ">>}

TextLabels == {<<>>, <<"A">>, Rep("L", 33)}

TextData ==
    {[title |-> <<"T">>,
      nodes |-> <<NodeData("a", l, "tool", ic, d, st)>>,
      connections |-> <<>>] :
        l \in TextLabels, ic \in {<<>>, <<"*">>}, d \in Descriptions,
        st \in {<<>>, <<FlatStyle>>}}

InitText ==
    /\ \E data \in TextData : Holds(create_workflow_from_dict(data))
    /\ output = <<>>

SpecText == InitText /\ [][NextLoaded]_vars

\* SpecWide: two or three boxes, narrow or wide, and at most one connection
WideLabels == {<<"A">>, Rep("x", 28)}

WideData ==
    {[title |-> <<"T">>,
      nodes |-> [i \in 1..Len(ls) |-> Plain(IdPool[i], ls[i])],
      connections |-> [i \in 1..Len(ps) |-> ConnData(ps[i][1], ps[i][2], "normal", <<>>)]] :
        ls \in [1..2 -> WideLabels] \cup [1..3 -> WideLabels],
        ps \in SeqsUpTo(GraphPairs, 1)}

InitWide ==
    /\ \E data \in WideData : Holds(create_workflow_from_dict(data))
    /\ output = <<>>

SpecWide == InitWide /\ [][NextLoaded]_vars

---------------------------------------------------------------------------
(* Vocabulary of the properties                                            *)

\* the ids of the steps
StepIds(self) == Elems(DictKeys(self.nodes))

\* the resolvable edges, as pairs
Edges(self) ==
    {<<self.connections[i].source, self.connections[i].target>> :
        i \in {k \in 1..Len(self.connections) : Resolvable(self, self.connections[k])}}

\* the pairs joined by a path of at least one edge
RECURSIVE PathsWithin(_, _)
PathsWithin(R, k) ==
    IF k = 0 THEN R
    ELSE PathsWithin(R \cup {<<pq[1][1], pq[2][2]>> :
                                 pq \in {x \in R \X R : x[1][2] = x[2][1]}}, k - 1)

IsDAG(self) ==
    \A p \in PathsWithin(Edges(self), Len(self.nodes)) : p[1] # p[2]

\* the position of an id in a list (0 when it is not in it)
PosIn(s, id) ==
    IF \E i \in 1..Len(s) : s[i] = id THEN CHOOSE i \in 1..Len(s) : s[i] = id ELSE 0

\* how often an id is in a list
CountIn(s, id) == Cardinality({i \in 1..Len(s) : s[i] = id})

\* the workflow has been laid out and rendered
Rendered == canvas # <<>>

---------------------------------------------------------------------------
(* C1: in a workflow whose resolvable edges form a DAG, the order returned *)
(* by _topological_sort puts u before v for every resolvable edge u->v,    *)
(* and the levels _assign_levels derives from it satisfy level(v) >        *)
(* level(u).                                                               *)
C1_LevelsRespectEdges ==
    IsDAG(Self) =>
        LET ordered_nodes == topological_sort(Self)
            node_to_level == NodeToLevel(Self, ordered_nodes)
        IN \A e \in Edges(Self) :
              /\ PosIn(ordered_nodes, e[1]) > 0
              /\ PosIn(ordered_nodes, e[1]) < PosIn(ordered_nodes, e[2])
              /\ DictAt(node_to_level, e[2]) > DictAt(node_to_level, e[1])

\* a laid-out DAG with an edge against the insertion order and a shortcut:
\* a -> c, c -> b, a -> b, drawn on three rows
C1_Witness ==
    /\ Rendered
    /\ IsDAG(Self)
    /\ Edges(Self) = {<<"a", "b">>, <<"c", "b">>, <<"a", "c">>}
    /\ DictAt(nodes, "a").y < DictAt(nodes, "c").y
    /\ DictAt(nodes, "c").y < DictAt(nodes, "b").y

(* C2: for every workflow (no edges, cycles, self-loops, dangling edges)   *)
(* the DFS ordering contains every step id exactly once; every step gets   *)
(* exactly one level; render draws every step exactly once, and a freshly  *)
(* laid-out step is painted.                                               *)
C2_EveryStepOnce ==
    LET ordered_nodes == topological_sort(Self)
        node_levels   == assign_levels(Self, ordered_nodes)
    IN /\ Len(ordered_nodes) = Len(nodes)
       /\ \A id \in StepIds(Self) :
             /\ CountIn(ordered_nodes, id) = 1
             /\ Cardinality({k \in 1..Len(node_levels) :
                               CountIn(node_levels[k].val, id) > 0}) = 1
             /\ \A k \in 1..Len(node_levels) : CountIn(node_levels[k].val, id) <= 1
             /\ CountIn(DrawOrder(Self), id) = 1
       /\ Elems(ordered_nodes) = StepIds(Self)
       /\ Rendered =>
             /\ output # IndexError
             /\ \A i \in 1..Len(nodes) : draw_node(Self, nodes[i].val) # <<>>

\* a rendered two-cycle a -> b -> a beside a dangling edge
C2_Witness ==
    /\ Rendered
    /\ output # <<>>
    /\ {<<"a", "b">>, <<"b", "a">>} \subseteq Edges(Self)
    /\ \E i \in 1..Len(connections) : ~Resolvable(Self, connections[i])
    /\ ~IsDAG(Self)

---------------------------------------------------------------------------
\* the workflow without its i-th connection
WithoutConn(self, i) ==
    [self EXCEPT !.connections =
        [k \in 1..(Len(self.connections) - 1) |->
            IF k < i THEN self.connections[k] ELSE self.connections[k + 1]]]

\* the layout of a workflow: what calculate_layout computes for the steps
\* and the canvas
LayoutOf(self) ==
    [nodes |-> self.nodes, canvas_width |-> self.canvas_width,
     canvas_height |-> self.canvas_height]

\* the object as render finds it once the layout step is over
Laid(self) == IF NeedsLayout(self) THEN calculate_layout(self) ELSE self

C6_WritesInsideCanvas ==
    /\ output # IndexError
    /\ nodes # <<>> =>
          LET s1 == Laid(Self) IN
          \A i \in 1..Len(RenderWrites(s1)) :
              LET w == RenderWrites(s1)[i] IN
              /\ 0 <= w.x /\ w.x < s1.canvas_width
              /\ 0 <= w.y /\ w.y < s1.canvas_height

\* a rendered workflow one of whose labels was cut at the right edge
C6_Witness ==
    /\ Rendered
    /\ output # <<>>
    /\ \E i \in 1..Len(connections) :
          /\ connections[i].path # <<>>
          /\ connections[i].label # <<>>
          /\ connections[i].path[2][1] + 1 + Len(connections[i].label) > canvas_width
          /\ LabelWrites(Self, connections[i]) # <<>>

---------------------------------------------------------------------------
\* a freshly constructed Workflow with the same title, the same steps and
\* the same edges, in the same insertion order
RECURSIVE FreshNodes(_, _, _), FreshConns(_, _, _)
FreshNodes(workflow, nds, i) ==
    IF i > Len(nds) THEN workflow
    ELSE LET n == nds[i].val IN
         FreshNodes(add_node(workflow,
                             Node(n.id, n.label, n.type, n.icon, n.description,
                                  <<n.style>>)),
                    nds, i + 1)

FreshConns(workflow, cns, i) ==
    IF i > Len(cns) THEN workflow
    ELSE FreshConns(add_connection(workflow,
                                   Connection(cns[i].source, cns[i].target,
                                              cns[i].type, cns[i].label)),
                    cns, i + 1)

Fresh(self) ==
    FreshConns(FreshNodes(Workflow(self.title), self.nodes, 1), self.connections, 1)

(* C9: no state leaks between renders: after any sequence of add_node,     *)
(* add_connection and render calls, render returns the string a freshly    *)
(* constructed Workflow with the same title, steps and edges returns on    *)
(* its first render.                                                       *)
C9_RenderOfCurrentGraph ==
    render(Self).result = render(Fresh(Self)).result

(* C10: the pipeline is idempotent on an unmutated Workflow: a second      *)
(* render returns the string of the first, and calculate_layout invoked    *)
(* between the two leaves every step's x, y, width and height, the canvas  *)
(* size and every edge's path unchanged (and so the second string too).    *)
C10_PipelineIdempotent ==
    LET first  == render(Self)
        again  == calculate_layout(first.self)
        second == render(again)
    IN /\ render(first.self).result = first.result
       /\ again.nodes = first.self.nodes
       /\ again.connections = first.self.connections
       /\ again.canvas_width = first.self.canvas_width
       /\ again.canvas_height = first.self.canvas_height
       /\ calculate_layout(again) = again
       /\ second.result = first.result

---------------------------------------------------------------------------
\* the step of a one-step workflow
Step == nodes[1].val

LineLens(lines) == {Len(lines[i]) : i \in 1..Len(lines)}

(* C4 as stated: for every step whose description is longer than its       *)
(* label, get_display_text returns more than one line and no line is       *)
(* longer than max(len(line0), 30), whatever the lengths of the words.     *)
C4_AsStated ==
    Len(Step.description) > Len(Step.label) =>
        LET lines == get_display_text(Step) IN
        /\ Len(lines) > 1
        /\ \A n \in LineLens(lines) : n <= MaxLineLength(Step)

(* C4: for every step whose description holds at least one word,           *)
(* get_display_text returns more than one line; when no word of the        *)
(* description is longer than max(len(line0), 30), no returned line is     *)
(* longer than that; a longer word stands alone on its line, behind an     *)
(* empty line when it is the first word; a description of spaces only adds *)
(* no line.                                                                *)
C4_WrappedLines ==
    LET lines == get_display_text(Step)
        words == Split(Step.description)
        limit == MaxLineLength(Step)
    IN /\ lines[1] = DisplayLine0(Step)
       /\ words = <<>> => Len(lines) = 1
       /\ words # <<>> => Len(lines) > 1
       /\ (\A k \in 1..Len(words) : Len(words[k]) <= limit) =>
              \A i \in 2..Len(lines) : 0 < Len(lines[i]) /\ Len(lines[i]) <= limit
       /\ \A i \in 2..Len(lines) :
              Len(lines[i]) > limit => \E k \in 1..Len(words) : lines[i] = words[k]
       /\ (words # <<>> /\ Len(words[1]) > limit) => lines[2] = <<>>
       /\ Split(Join(SubSeq(lines, 2, Len(lines)))) = words

\* a rendered step whose description of three 15-character words is wrapped
\* into three lines under a one-character label
C4_Witness ==
    /\ Rendered
    /\ Len(Step.label) = 1
    /\ Len(Step.description) = 47
    /\ Len(get_display_text(Step)) = 4
    /\ Step.height = 4 + 2 * Step.style.padding

---------------------------------------------------------------------------
\* the cells of a box
BoxCells(n) == {<<x, y>> : x \in n.x..(n.x + n.width - 1), y \in n.y..(n.y + n.height - 1)}

(* C7: after calculate_layout no two step boxes overlap: the rectangles    *)
(* [x, x+width) x [y, y+height) of two distinct steps are disjoint, on     *)
(* different levels and on the same level.                                 *)
C7_BoxesDisjoint ==
    canvas_width > 0 =>
        \A i \in 1..Len(nodes), j \in 1..Len(nodes) :
            i # j => BoxCells(nodes[i].val) \cap BoxCells(nodes[j].val) = {}

---------------------------------------------------------------------------
\* the character at (row, col) of a rendered string, rows and columns from 0
CharAt(out, row, col) ==
    LET nl    == {i \in 1..Len(out) : out[i] = "\n"}
        start == IF row = 0 THEN 1
                 ELSE 1 + CHOOSE i \in nl : Cardinality({j \in nl : j < i}) = row - 1
    IN out[start + col]

\* the character connection j leaves in cell (y, x), if it paints it
PaintsCell(self, j, y, x) ==
    \E k \in 1..Len(ConnWrites(self, self.connections[j])) :
        LET w == ConnWrites(self, self.connections[j])[k] IN w.y = y /\ w.x = x

LastCharIn(self, j, y, x) ==
    LET ws   == ConnWrites(self, self.connections[j])
        hits == {k \in 1..Len(ws) : ws[k].y = y /\ ws[k].x = x}
    IN ws[CHOOSE k \in hits : \A m \in hits : m <= k].ch

\* connection i joins two steps that share their center column
Aligned(self, i) ==
    /\ Resolvable(self, self.connections[i])
    /\ CenterX(DictAt(self.nodes, self.connections[i].source))
         = CenterX(DictAt(self.nodes, self.connections[i].target))

(* C5 as stated: for every edge u->v of a DAG whose boxes share the center *)
(* column c, the rendered string has 'v' at column c of row v.y - 1,       *)
(* whatever other edges the workflow contains.                             *)
C5_AsStated ==
    (Rendered /\ IsDAG(Self)) =>
        \A i \in 1..Len(connections) :
            Aligned(Self, i) =>
                LET v == DictAt(nodes, connections[i].target)
                IN CharAt(output, v.y - 1, CenterX(v)) = "v"

(* C5: for every edge u->v of a DAG whose boxes share the center column c, *)
(* the rendered string has 'v' at column c of row v.y - 1 unless an edge   *)
(* added after u->v paints that cell too (its line passes through it, or   *)
(* its label covers it); the cell then shows what the last such edge       *)
(* painted there.                                                          *)
C5_ArrowAboveTarget ==
    (Rendered /\ IsDAG(Self)) =>
        \A i \in 1..Len(connections) :
            Aligned(Self, i) =>
                LET v     == DictAt(nodes, connections[i].target)
                    y     == v.y - 1
                    x     == CenterX(v)
                    later == {j \in (i + 1)..Len(connections) : PaintsCell(Self, j, y, x)}
                IN /\ PaintsCell(Self, i, y, x)
                   /\ LastCharIn(Self, i, y, x) = "v"
                   /\ CharAt(output, y, x) =
                        IF later = {} THEN "v"
                        ELSE LastCharIn(Self, CHOOSE j \in later : \A m \in later : m <= j, y, x)

\* a rendered chain a -> b -> c: both arrows show, no edge passes over them
C5_Witness ==
    /\ Rendered
    /\ [i \in 1..Len(connections) |-> <<connections[i].source, connections[i].target>>]
          = <<<<"a", "b">>, <<"b", "c">>>>
    /\ CharAt(output, DictAt(nodes, "b").y - 1, CenterX(DictAt(nodes, "b"))) = "v"
    /\ CharAt(output, DictAt(nodes, "c").y - 1, CenterX(DictAt(nodes, "c"))) = "v"

---------------------------------------------------------------------------
\* the two points of a routed path are neither in one column nor in one row
Diagonal(path) == path[1][1] # path[2][1] /\ path[1][2] # path[2][2]

(* C11: the router never produces a diagonal segment: the two points of    *)
(* every routed path have equal x or equal y, and every routed edge paints *)
(* a connector line.                                                       *)
C11_NoDiagonalPath ==
    \A i \in 1..Len(connections) :
        connections[i].path # <<>> =>
            /\ ~Diagonal(connections[i].path)
            /\ SegmentsFrom(Self, connections[i], 1) # <<>>

---------------------------------------------------------------------------
(* C12: after calculate_layout on a non-empty workflow every box lies      *)
(* inside the canvas and below the title row: x >= 0, y >= 2,              *)
(* x + width <= canvas_width and y + height <= canvas_height.              *)
C12_BoxesInsideCanvas ==
    nodes # <<>> =>
        LET s == calculate_layout(Self) IN
        \A k \in 1..Len(s.nodes) :
            LET n == s.nodes[k].val IN
            /\ n.x >= 0
            /\ n.y >= TopMargin
            /\ n.x + n.width <= s.canvas_width
            /\ n.y + n.height <= s.canvas_height

\* a laid-out level of three boxes, each 30 wide
C12_Witness ==
    /\ canvas_width > 0
    /\ Len(nodes) = 3
    /\ \A k \in 1..3 : nodes[k].val.width = 30 /\ nodes[k].val.y = TopMargin
    /\ \E k \in 1..3 : nodes[k].val.x + 30 + RightMargin = canvas_width

====
